---- MODULE Spec2Model ----
(***************************************************************************)
(* Model of the snake bot's board tracker (board_tracker.rs), toroidal     *)
(* geometry (direction.rs) and Monte-Carlo playout engine (playout.rs).    *)
(*                                                                         *)
(* A round is modelled as: BoardTracker::new, then a bounded number of     *)
(* record_pos / record_death calls on the live tracker (the server feed),  *)
(* then one run_playout on a clone of the live tracker.  One loop          *)
(* iteration of run_playout (lines 26-86) is one step, Tick.               *)
(***************************************************************************)
EXTENDS Integers, Sequences, FiniteSets, TLC

\* ------------------------------------------------------------------ bounds
MaxCells == 4
MaxPlayers == 2
MaxFeed == 2
MaxSteps == 2
MaxCalls == 3
MaxSide == 3
MaxArea == 6
MaxPlayouts == 2

\* --------------------------------------------------------------- constants
\* BoardTracker::NO_PLAYER is usize::MAX; any value that is no player id.
NO_PLAYER == -1

\* Option::None of latest_pos / of new_pos_by_player's entries.
None == <<>>

\* The two trackers in memory: the caller's live tracker and the one that
\* run_playout owns.
LIVE == "live"
SIM == "sim"
Addrs == {LIVE, SIM}

Directions == {"Up", "Right", "Down", "Left"}

PlayerIds == 0..(MaxPlayers - 1)

\* The board sizes of a round: every width x height of at most MaxCells cells
\* with width >= height (a board and its transpose behave alike, with
\* Left/Right and Up/Down exchanged).
BoardSizes ==
    {s \in (1..MaxCells) \X (1..MaxCells) : s[1] * s[2] <= MaxCells /\ s[1] >= s[2]}

VARIABLES
    heap,                   \* address -> BoardTracker value stored there
    fed,                    \* number of feed calls made on the live tracker
    pc,                     \* "feed", "moves" (at the loop head), "done", "panic_*"
    board,                  \* address of run_playout's `board`
    own_player_id,
    max_steps,
    clear_on_death,
    i_step,
    count_dead_before_turn,
    new_pos_by_player,
    next_occupied_count,
    result,                 \* the PlayoutResult returned, or None
    pre,                    \* history: the playout's tracker when the tick began
    ticks,                  \* history: number of ticks the playout has simulated
    call,                   \* history: the last call made from outside a playout,
                            \* with its arguments and what it returned, or None
    recorded,               \* history: the player ids passed to record_pos so far
    notified                \* history: the player ids passed to record_death so far

vars == <<heap, fed, pc, board, own_player_id, max_steps, clear_on_death, i_step,
          count_dead_before_turn, new_pos_by_player, next_occupied_count, result, pre,
          ticks, call, recorded, notified>>

\* The history of the calls made from outside a playout.
CallHistory == <<call, recorded, notified>>

\* ------------------------------------------------------------ direction.rs
reverse(d) ==
    CASE d = "Up" -> "Down"
      [] d = "Right" -> "Left"
      [] d = "Down" -> "Up"
      [] d = "Left" -> "Right"

DX(d) == CASE d = "Left" -> -1 [] d = "Right" -> 1 [] OTHER -> 0

DY(d) == CASE d = "Up" -> -1 [] d = "Down" -> 1 [] OTHER -> 0

\* The value standing for a failed assert!(x < width && y < height).
InvalidPosition == <<"Invalid position">>

\* Direction::all_directions(), in the order of the array.
all_directions == <<"Up", "Right", "Down", "Left">>

\* As direction_offset_pos, stopping at the edge of the board.
direction_offset_pos_clamp(d, pos, size) ==
    LET x == pos[1]
        y == pos[2]
        width == size[1]
        height == size[2]
        clamp(v, n) == IF v < 0 THEN 0 ELSE IF v >= n THEN n - 1 ELSE v
    IN  IF ~(x < width /\ y < height)
        THEN InvalidPosition
        ELSE << clamp(x + DX(d), width), clamp(y + DY(d), height) >>

\* As direction_offset_pos, without the assert.
direction_offset_pos_unchecked(d, pos, size) ==
    << (pos[1] + DX(d) + size[1]) % size[1], (pos[2] + DY(d) + size[2]) % size[2] >>

\* Direction::offset_pos(pos, size)
direction_offset_pos(d, pos, size) ==
    LET x == pos[1]
        y == pos[2]
        width == size[1]
        height == size[2]
    IN  IF ~(x < width /\ y < height)
        THEN InvalidPosition
        ELSE << (x + DX(d) + width) % width, (y + DY(d) + height) % height >>

\* -------------------------------------------------------- board_tracker.rs
NewPlayer == [latest_pos |-> None, dead |-> FALSE]

\* BoardTracker::new
new(width, height) ==
    [width |-> width, height |-> height,
     board |-> [i \in 1..(width * height) |-> NO_PLAYER],
     players |-> <<>>]

board_size(t) == <<t.width, t.height>>

\* The index y * width + x of the cell, in the 1-based sequence t.board.
CellIndex(t, pos) == pos[2] * t.width + pos[1] + 1

\* As get_or_create_internal_player_mut, resizing only when the id is beyond the
\* length (the id equal to the length gets no entry).
get_or_create_beyond_len(t, player_id) ==
    IF player_id > Len(t.players)
    THEN [t EXCEPT !.players =
            @ \o [i \in 1..(player_id + 1 - Len(@)) |-> NewPlayer]]
    ELSE t

get_or_create_internal_player_mut(t, player_id) ==
    IF player_id >= Len(t.players)
    THEN [t EXCEPT !.players =
            @ \o [i \in 1..(player_id + 1 - Len(@)) |-> NewPlayer]]
    ELSE t

get_internal_player(t, player_id) == t.players[player_id + 1]

is_dead(t, player_id) == get_internal_player(t, player_id).dead

count_dead(t) == Cardinality({i \in 1..Len(t.players) : t.players[i].dead})

\* As count_alive, counting only the players that have a latest position.
count_alive_with_pos(t) ==
    Cardinality({i \in 1..Len(t.players) :
                   ~t.players[i].dead /\ t.players[i].latest_pos # None})

count_alive(t) == Cardinality({i \in 1..Len(t.players) : ~t.players[i].dead})

count_seen(t) == Len(t.players)

get_cell_player(t, pos) ==
    IF t.board[CellIndex(t, pos)] = NO_PLAYER THEN None
    ELSE <<t.board[CellIndex(t, pos)]>>

get_player_latest_pos(t, player_id) ==
    IF player_id < Len(t.players) THEN t.players[player_id + 1].latest_pos ELSE None

\* record_pos's return value: was the cell owned before the write
record_pos_duplicate(t, pos) == t.board[CellIndex(t, pos)] # NO_PLAYER

\* As record_pos, leaving the dead flag as it was.
record_pos_keep_dead(t, player_id, pos) ==
    LET t1 == [t EXCEPT !.board[CellIndex(t, pos)] = player_id]
        t2 == get_or_create_internal_player_mut(t1, player_id)
    IN  [t2 EXCEPT !.players[player_id + 1].latest_pos = pos]

\* record_pos's effect on the tracker
record_pos(t, player_id, pos) ==
    LET t1 == [t EXCEPT !.board[CellIndex(t, pos)] = player_id]
        t2 == get_or_create_internal_player_mut(t1, player_id)
    IN  [t2 EXCEPT !.players[player_id + 1] = [latest_pos |-> pos, dead |-> FALSE]]

\* As record_death, the clearing pass resetting every owned cell.
record_death_clear_all(t, player_id, clear) ==
    LET t1 == get_or_create_internal_player_mut(t, player_id)
        t2 == [t1 EXCEPT !.players[player_id + 1].dead = TRUE]
    IN  IF clear
        THEN [t2 EXCEPT !.board = [i \in 1..Len(@) |-> NO_PLAYER]]
        ELSE t2

\* As record_death, forgetting the dead player's latest position.
record_death_forget_pos(t, player_id, clear) ==
    LET t1 == get_or_create_internal_player_mut(t, player_id)
        t2 == [t1 EXCEPT !.players[player_id + 1] = [latest_pos |-> None, dead |-> TRUE]]
    IN  IF clear
        THEN [t2 EXCEPT !.board =
                [i \in 1..Len(@) |-> IF @[i] = player_id THEN NO_PLAYER ELSE @[i]]]
        ELSE t2

\* As record_death, without the clearing pass.
record_death_never_clear(t, player_id, clear) ==
    LET t1 == get_or_create_internal_player_mut(t, player_id)
    IN  [t1 EXCEPT !.players[player_id + 1].dead = TRUE]

record_death(t, player_id, clear) ==
    LET t1 == get_or_create_internal_player_mut(t, player_id)
        t2 == [t1 EXCEPT !.players[player_id + 1].dead = TRUE]
    IN  IF clear
        THEN [t2 EXCEPT !.board =
                [i \in 1..Len(@) |-> IF @[i] = player_id THEN NO_PLAYER ELSE @[i]]]
        ELSE t2

\* As offset_pos, stepping against the direction.
offset_pos_reversed(t, pos, direction) ==
    direction_offset_pos(reverse(direction), pos, board_size(t))

\* BoardTracker::offset_pos
offset_pos(t, pos, direction) == direction_offset_pos(direction, pos, board_size(t))

occupied_mask(t) == [i \in 1..Len(t.board) |-> t.board[i] # NO_PLAYER]

\* As conservative_occupied_mask, without the filter on own_player.
conservative_occupied_mask_all(t, own_player) ==
    [i \in 1..Len(t.board) |->
        \/ occupied_mask(t)[i]
        \/ \E p \in 0..(Len(t.players) - 1), d \in Directions :
              /\ get_player_latest_pos(t, p) # None
              /\ CellIndex(t, offset_pos(t, get_player_latest_pos(t, p), d)) = i]

\* The loops of lines 115-126 set the mask at the four offsets of the latest
\* position of every player but own_player; the order of the writes is
\* immaterial, every write being `true`.
conservative_occupied_mask(t, own_player) ==
    [i \in 1..Len(t.board) |->
        \/ occupied_mask(t)[i]
        \/ \E p \in 0..(Len(t.players) - 1), d \in Directions :
              /\ p # own_player
              /\ get_player_latest_pos(t, p) # None
              /\ CellIndex(t, offset_pos(t, get_player_latest_pos(t, p), d)) = i]

\* All in-bounds positions of a tracker.
Positions(t) == (0..(t.width - 1)) \X (0..(t.height - 1))

\* A shallow copy: the clone names the storage of the original.
cloneAlias(src, dst) ==
    /\ heap' = heap
    /\ board' = src

\* #[derive(Clone)] on BoardTracker and BoardTrackerPlayer: a deep copy of the
\* tracker at address src is stored at address dst, which the clone then names.
clone(src, dst) ==
    /\ heap' = [heap EXCEPT ![dst] = heap[src]]
    /\ board' = dst

\* -------------------------------------------------------------- distance.rs
\* usize::MAX, the value of a cell no expansion has reached: any number above
\* every hop count on the boards of the model.
USIZE_MAX == 1000000

\* Lines 21-32: the loop over the directions for the cell `current` taken from
\* the queue; st holds `distances` and `queue`, indexed from 1 here and from
\* 0 in the code, and `sources`, the values of current_distance (line 18)
\* that the expansion has used so far, in order.
RECURSIVE distances_expand(_, _, _, _, _)
distances_expand(size, st, current, current_distance, dirs) ==
    IF dirs = <<>> THEN st
    ELSE LET pos == <<current % size[1], current \div size[1]>>
             new_pos == direction_offset_pos(Head(dirs), pos, size)
             new_i == new_pos[2] * size[1] + new_pos[1]
             new_distance == current_distance + 1
         IN  distances_expand(size,
                 IF new_distance < st.distances[new_i + 1]
                 THEN [st EXCEPT !.distances[new_i + 1] = new_distance,
                                 !.queue = Append(@, new_i)]
                 ELSE st,
                 current, current_distance, Tail(dirs))

\* Lines 17-33: while let Some(current) = queue.pop_front(); the value is the
\* state in which the queue is empty.
RECURSIVE distances_loop(_, _)
distances_loop(size, st) ==
    IF st.queue = <<>> THEN st
    ELSE distances_loop(size,
             distances_expand(size,
                 [st EXCEPT !.queue = Tail(@),
                            !.sources = Append(@, st.distances[Head(st.queue) + 1])],
                 Head(st.queue), st.distances[Head(st.queue) + 1], all_directions))

\* The indices of the occupied cells in ascending order (lines 10-15 push
\* them in this order).
RECURSIVE occupied_indices(_, _)
occupied_indices(occupied_mask_arg, i) ==
    IF i > Len(occupied_mask_arg) THEN <<>>
    ELSE (IF occupied_mask_arg[i] THEN <<i - 1>> ELSE <<>>)
         \o occupied_indices(occupied_mask_arg, i + 1)

\* As calculate_distances, seeding only the first occupied cell.
calculate_distances_first_seed(size, occupied_mask_arg) ==
    LET seeds == occupied_indices(occupied_mask_arg, 1)
        first == IF seeds = <<>> THEN <<>> ELSE <<Head(seeds)>>
    IN  distances_loop(size,
            [distances |-> [i \in 1..(size[1] * size[2]) |->
                               IF first # <<>> /\ first[1] = i - 1 THEN 0 ELSE USIZE_MAX],
             queue |-> first,
             sources |-> <<>>]).distances

\* As distances_seed, pushing every cell on the queue, occupied or not.
distances_seed_every_cell(size, occupied_mask_arg) ==
    [distances |-> [i \in 1..(size[1] * size[2]) |->
                       IF occupied_mask_arg[i] THEN 0 ELSE USIZE_MAX],
     queue |-> [i \in 1..(size[1] * size[2]) |-> i - 1],
     sources |-> <<>>]

\* Lines 8-15: `distances` and `queue` when the expansion starts.
distances_seed(size, occupied_mask_arg) ==
    [distances |-> [i \in 1..(size[1] * size[2]) |->
                       IF occupied_mask_arg[i] THEN 0 ELSE USIZE_MAX],
     queue |-> occupied_indices(occupied_mask_arg, 1),
     sources |-> <<>>]

\* calculate_distances(size, occupied_mask), for a mask of width * height
\* entries (the assert_eq of line 6 holds).
calculate_distances(size, occupied_mask_arg) ==
    distances_loop(size, distances_seed(size, occupied_mask_arg)).distances

\* The values of current_distance in the iterations of one
\* calculate_distances call, in order.
calculate_distances_sources(size, occupied_mask_arg) ==
    distances_loop(size, distances_seed(size, occupied_mask_arg)).sources

\* ---------------------------------------------------------- reachability.rs
\* Lines 22-30: the loop over the directions for the cell `current`; st holds
\* `reachable` and `queue`, indexed from 1 here and from 0 in the code.
RECURSIVE reachable_expand(_, _, _, _, _)
reachable_expand(size, occupied_mask_arg, st, current, dirs) ==
    IF dirs = <<>> THEN st
    ELSE LET pos == <<current % size[1], current \div size[1]>>
             new_pos == direction_offset_pos(Head(dirs), pos, size)
             new_i == new_pos[2] * size[1] + new_pos[1]
         IN  reachable_expand(size, occupied_mask_arg,
                 IF ~st.reachable[new_i + 1] /\ ~occupied_mask_arg[new_i + 1]
                 THEN [st EXCEPT !.reachable[new_i + 1] = TRUE,
                                 !.queue = Append(@, new_i)]
                 ELSE st,
                 current, Tail(dirs))

\* Lines 19-31: while let Some(current) = queue.pop_front()
RECURSIVE reachable_loop(_, _, _)
reachable_loop(size, occupied_mask_arg, st) ==
    IF st.queue = <<>> THEN st.reachable
    ELSE reachable_loop(size, occupied_mask_arg,
             reachable_expand(size, occupied_mask_arg, [st EXCEPT !.queue = Tail(@)],
                              Head(st.queue), all_directions))

\* Lines 12-17: `reachable` and `queue` when the fill starts.
reachable_seed(size, start_pos) ==
    [reachable |-> [i \in 1..(size[1] * size[2]) |->
                       i - 1 = start_pos[2] * size[1] + start_pos[1]],
     queue |-> <<start_pos[2] * size[1] + start_pos[1]>>]

\* As calculate_reachable, never looking at the mask.
calculate_reachable_unmasked(size, occupied_mask_arg, start_pos) ==
    reachable_loop(size, [i \in 1..(size[1] * size[2]) |-> FALSE],
                   reachable_seed(size, start_pos))

\* As calculate_reachable, a start cell that the mask blocks being treated as
\* any blocked cell: nothing is reachable.
calculate_reachable_start_checked(size, occupied_mask_arg, start_pos) ==
    IF occupied_mask_arg[start_pos[2] * size[1] + start_pos[1] + 1]
    THEN [i \in 1..(size[1] * size[2]) |-> FALSE]
    ELSE reachable_loop(size, occupied_mask_arg, reachable_seed(size, start_pos))

\* calculate_reachable(size, occupied_mask, start_pos), for a mask of
\* width * height entries and an in-bounds start.
calculate_reachable(size, occupied_mask_arg, start_pos) ==
    reachable_loop(size, occupied_mask_arg, reachable_seed(size, start_pos))

\* --------------------------------------------------------- shortest_path.rs
\* The value standing for panic!("steps in path aren't adjacent") (line 53).
NotAdjacentPanic == <<"steps in path aren't adjacent">>

\* As path_edges, ignoring the mask.
path_edges_unmasked(size, occupied_mask_arg, start_pos) ==
    { <<i, direction_offset_pos(d, <<i % size[1], i \div size[1]>>, size)[2] * size[1]
           + direction_offset_pos(d, <<i % size[1], i \div size[1]>>, size)[1]>> :
        i \in 0..(size[1] * size[2] - 1), d \in {"Right", "Down"} }

\* As path_edges, without the exception for the start cell.
path_edges_strict(size, occupied_mask_arg, start_pos) ==
    { e \in path_edges_unmasked(size, occupied_mask_arg, start_pos) :
        ~occupied_mask_arg[e[1] + 1] /\ ~occupied_mask_arg[e[2] + 1] }

\* Lines 15-31: the edges given to UnGraph::from_edges, as pairs of cell
\* indices (from 0): a cell and its Right or Down neighbour, both free under
\* the mask or the start cell.
path_edges(size, occupied_mask_arg, start_pos) ==
    { e \in path_edges_unmasked(size, occupied_mask_arg, start_pos) :
        /\ (~occupied_mask_arg[e[1] + 1]
              \/ <<e[1] % size[1], e[1] \div size[1]>> = start_pos)
        /\ (~occupied_mask_arg[e[2] + 1]
              \/ <<e[2] % size[1], e[2] \div size[1]>> = start_pos) }

\* The nodes at most k edges of the undirected graph away from node.
RECURSIVE graph_within(_, _, _)
graph_within(edges, node, k) ==
    IF k = 0 THEN {node}
    ELSE UNION { prev \cup {e[1] : e \in {f \in edges : f[2] \in prev}}
                      \cup {e[2] : e \in {f \in edges : f[1] \in prev}} :
                 prev \in {graph_within(edges, node, k - 1)} }

\* Lines 33-39: the node sequences petgraph::algo::astar may return as `path`
\* for unit edge costs and the zero estimate, cut after the second node: the
\* start alone when it is the goal, no path when the goal is not connected to
\* the start (also when the start occurs in no edge), and else the start followed
\* by a neighbour that is one edge nearer to the goal; which of several such
\* neighbours is left open.
astar_paths(edges, cells, start_i, target_i) ==
    IF start_i = target_i THEN {<<start_i>>}
    ELSE IF start_i \notin graph_within(edges, target_i, cells) THEN {}
    ELSE UNION { { <<start_i, b>> :
                     b \in {c \in graph_within(edges, start_i, 1) :
                              c \in graph_within(edges, target_i, k - 1)} } :
                 k \in {j \in 1..cells :
                          /\ start_i \in graph_within(edges, target_i, j)
                          /\ start_i \notin graph_within(edges, target_i, j - 1)} }

\* Lines 41-59: what the function returns for the path that astar found.
path_first_direction(size, path) ==
    IF Len(path) >= 2
    THEN LET a_pos == <<path[1] % size[1], path[1] \div size[1]>>
             b_pos == <<path[2] % size[1], path[2] \div size[1]>>
             hits == {k \in 1..Len(all_directions) :
                        direction_offset_pos(all_directions[k], a_pos, size) = b_pos}
         IN  IF hits = {} THEN NotAdjacentPanic
             ELSE <<all_directions[CHOOSE k \in hits : \A j \in hits : k <= j]>>
    ELSE None

\* shortest_path_next_direction(size, occupied_mask, start_pos, target_pos):
\* the values it may return, None or <<direction>>, for a mask of
\* width * height entries and in-bounds positions.
shortest_path_next_direction(size, occupied_mask_arg, start_pos, target_pos) ==
    LET paths == astar_paths(path_edges(size, occupied_mask_arg, start_pos),
                             size[1] * size[2],
                             start_pos[2] * size[1] + start_pos[1],
                             target_pos[2] * size[1] + target_pos[1])
    IN  IF paths = {} THEN {None}
        ELSE {path_first_direction(size, path) : path \in paths}

\* --------------------------------------------------------------- playout.rs
PlayerIdsOf(t) == 0..(Len(t.players) - 1)

AlivePlayers(t) == {p \in PlayerIdsOf(t) : ~is_dead(t, p)}

\* The value standing for the panic of Option::unwrap() on None (line 36).
UnwrapPanic == <<"unwrap on None">>

\* As NewPosByPlayer, without the is_dead test of line 32.
NewPosByPlayerAskDead(t, dirs) ==
    [i \in 1..Len(t.players) |->
        IF get_player_latest_pos(t, i - 1) = None THEN UnwrapPanic
        ELSE offset_pos(t, get_player_latest_pos(t, i - 1), dirs[i - 1])]

\* Lines 28-41: new_pos_by_player, given the direction each strategy returned.
\* A dead player's strategy is not called.
NewPosByPlayer(t, dirs) ==
    [i \in 1..Len(t.players) |->
        IF is_dead(t, i - 1) THEN None
        ELSE IF get_player_latest_pos(t, i - 1) = None THEN UnwrapPanic
        ELSE offset_pos(t, get_player_latest_pos(t, i - 1), dirs[i - 1])]

\* As NextOccupiedCount, forgetting the cells that are occupied already.
NextOccupiedCountMovesOnly(t, new_pos) ==
    [i \in 1..Len(t.board) |->
        Cardinality({j \in 1..Len(new_pos) :
                       new_pos[j] # None /\ CellIndex(t, new_pos[j]) = i})]

\* As NextOccupiedCount, counting a cell that several players chose once.
NextOccupiedCountOnce(t, new_pos) ==
    [i \in 1..Len(t.board) |->
        (IF occupied_mask(t)[i] THEN 1 ELSE 0)
        + (IF \E j \in 1..Len(new_pos) :
                 new_pos[j] # None /\ CellIndex(t, new_pos[j]) = i
           THEN 1 ELSE 0)]

\* Lines 43-48: the occupied mask as 0/1 plus one per candidate next cell.
NextOccupiedCount(t, new_pos) ==
    [i \in 1..Len(t.board) |->
        (IF occupied_mask(t)[i] THEN 1 ELSE 0)
        + Cardinality({j \in 1..Len(new_pos) :
                         new_pos[j] # None /\ CellIndex(t, new_pos[j]) = i})]

\* As MoveAccepted, looking at the board as the loop has changed it so far
\* (what record_pos's return value would tell).
MoveAcceptedIfCellFree(t, counts, new_pos) ==
    t.board[CellIndex(t, new_pos)] = NO_PLAYER

\* As MoveAccepted, without any test: every move is recorded.
MoveAcceptedAlways(t, counts, new_pos) == TRUE

\* Line 53: the test that decides between record_pos and record_death.
MoveAccepted(t, counts, new_pos) == counts[CellIndex(t, new_pos)] = 1

\* Lines 51-58: the loop body for one player.
ApplyOne(t, new_pos, counts, clear, player_id) ==
    IF new_pos[player_id + 1] = None THEN t
    ELSE IF MoveAccepted(t, counts, new_pos[player_id + 1])
         THEN record_pos(t, player_id, new_pos[player_id + 1])
         ELSE record_death(t, player_id, clear)

\* Lines 50-59: the loop, visiting the players in the given order.
RECURSIVE ApplyInOrder(_, _, _, _, _)
ApplyInOrder(t, new_pos, counts, clear, order) ==
    IF order = <<>> THEN t
    ELSE ApplyInOrder(ApplyOne(t, new_pos, counts, clear, Head(order)),
                      new_pos, counts, clear, Tail(order))

\* new_pos_by_player.iter().enumerate(): player ids in ascending order.
EnumerateOrder(new_pos) == [i \in 1..Len(new_pos) |-> i - 1]

\* Lines 62-68
ResultDied(t, dead_before, step) ==
    [beaten_players |-> dead_before, remaining_players |-> count_alive(t),
     survived_steps |-> step, did_win |-> FALSE, did_die |-> TRUE]

\* Lines 70-76
ResultWon(t, step) ==
    [beaten_players |-> count_dead(t), remaining_players |-> count_alive(t),
     survived_steps |-> step + 1, did_win |-> TRUE, did_die |-> FALSE]

\* As ResultCap, reporting the index of the last tick.
ResultCapIndex(t, step) ==
    [beaten_players |-> count_dead(t), remaining_players |-> count_alive(t),
     survived_steps |-> step, did_win |-> FALSE, did_die |-> FALSE]

\* Lines 79-85
ResultCap(t, step) ==
    [beaten_players |-> count_dead(t), remaining_players |-> count_alive(t),
     survived_steps |-> step + 1, did_win |-> FALSE, did_die |-> FALSE]

\* As CapReached, one tick late.
CapReachedLate(step, cap) == step >= cap

\* Line 77: the step cap test.
CapReached(step, cap) == step + 1 >= cap

\* As Outcome, testing for a single survivor before the own player's death.
OutcomeWinFirst(t, own, step, cap) ==
    IF count_alive(t) = 1 THEN "won"
    ELSE IF is_dead(t, own) THEN "died"
    ELSE IF CapReached(step, cap)
         THEN IF step + 1 = cap THEN "cap" ELSE "assert"
    ELSE "continue"

\* As Outcome, testing the step cap before the single survivor.
OutcomeCapFirst(t, own, step, cap) ==
    IF is_dead(t, own) THEN "died"
    ELSE IF CapReached(step, cap)
         THEN IF step + 1 = cap THEN "cap" ELSE "assert"
    ELSE IF count_alive(t) = 1 THEN "won"
    ELSE "continue"

\* Lines 61, 69, 77, 78: which branch the terminal checks take.
Outcome(t, own, step, cap) ==
    IF is_dead(t, own) THEN "died"
    ELSE IF count_alive(t) = 1 THEN "won"
    ELSE IF CapReached(step, cap)
         THEN IF step + 1 = cap THEN "cap" ELSE "assert"
    ELSE "continue"

\* ------------------------------------------------------------------ actions
Init ==
    /\ \E size \in BoardSizes :
          heap = [a \in Addrs |-> IF a = LIVE THEN new(size[1], size[2]) ELSE new(0, 0)]
    /\ fed = 0
    /\ pc = "feed"
    /\ board = LIVE
    /\ own_player_id = 0
    /\ max_steps = 0
    /\ clear_on_death = FALSE
    /\ i_step = 0
    /\ count_dead_before_turn = 0
    /\ new_pos_by_player = <<>>
    /\ next_occupied_count = <<>>
    /\ result = None
    /\ pre = None
    /\ ticks = 0
    /\ call = None
    /\ recorded = {}
    /\ notified = {}

PlayoutLocals == <<own_player_id, max_steps, clear_on_death, i_step,
                   count_dead_before_turn, new_pos_by_player, next_occupied_count,
                   result, pre>>

\* A position update from the feed: live.record_pos(player_id, pos)
FeedPos ==
    /\ pc = "feed"
    /\ fed < MaxFeed
    /\ \E player_id \in PlayerIds, pos \in Positions(heap[LIVE]) :
          heap' = [heap EXCEPT ![LIVE] = record_pos(@, player_id, pos)]
    /\ fed' = fed + 1
    /\ UNCHANGED <<pc, board, PlayoutLocals, ticks, CallHistory>>

\* A death notice from the feed: live.record_death(player_id, clear)
FeedDeath ==
    /\ pc = "feed"
    /\ fed < MaxFeed
    /\ \E player_id \in PlayerIds, clear \in BOOLEAN :
          heap' = [heap EXCEPT ![LIVE] = record_death(@, player_id, clear)]
    /\ fed' = fed + 1
    /\ UNCHANGED <<pc, board, PlayoutLocals, ticks, CallHistory>>

\* run_playout(live.clone(), strategies, own, max_steps, clear_on_death) up to
\* the loop head: one strategy per tracked player, and the two asserts of
\* lines 20-21 hold.
StartPlayout ==
    /\ pc = "feed"
    /\ \E own \in PlayerIdsOf(heap[LIVE]), cap \in 1..MaxSteps, clear \in BOOLEAN :
          /\ ~is_dead(heap[LIVE], own)
          /\ own_player_id' = own
          /\ max_steps' = cap
          /\ clear_on_death' = clear
    /\ clone(LIVE, SIM)
    /\ i_step' = 0
    /\ pc' = "moves"
    /\ UNCHANGED <<fed, count_dead_before_turn, new_pos_by_player,
                   next_occupied_count, result, pre, ticks, CallHistory>>

\* What the strategies may return in one tick: a direction for every alive
\* player.  A dead player's strategy is not called; its entry is a placeholder.
DirectionChoices(t) ==
    {dirs \in [PlayerIdsOf(t) -> Directions] :
        \A p \in PlayerIdsOf(t) : is_dead(t, p) => dirs[p] = "Up"}

\* One iteration of the loop, lines 26-86.  The unwrap() of line 36 panics
\* when a player that is asked for a move has no latest position.
\* (Each local is bound with \E over a one-element set, so that it is
\* computed once.)
Tick ==
    /\ pc = "moves"
    /\ \E t \in {heap[board]} :
       \E new_pos \in {NewPosByPlayer(t, dirs) : dirs \in DirectionChoices(t)} :
          IF \E i \in 1..Len(new_pos) : new_pos[i] = UnwrapPanic
          THEN /\ pc' = "panic_unwrap"
               /\ UNCHANGED <<heap, i_step, count_dead_before_turn, new_pos_by_player,
                              next_occupied_count, result, pre, ticks>>
          ELSE \E counts \in {NextOccupiedCount(t, new_pos)} :
               \E t2 \in {ApplyInOrder(t, new_pos, counts, clear_on_death,
                                       EnumerateOrder(new_pos))} :
               \E outcome \in {Outcome(t2, own_player_id, i_step, max_steps)} :
                   /\ count_dead_before_turn' = count_dead(t)
                   /\ new_pos_by_player' = new_pos
                   /\ next_occupied_count' = counts
                   /\ heap' = [heap EXCEPT ![board] = t2]
                   /\ pc' = CASE outcome = "continue" -> "moves"
                              [] outcome = "assert" -> "panic_assert"
                              [] OTHER -> "done"
                   /\ result' = CASE outcome = "died" ->
                                       ResultDied(t2, count_dead(t), i_step)
                                  [] outcome = "won" -> ResultWon(t2, i_step)
                                  [] outcome = "cap" -> ResultCap(t2, i_step)
                                  [] OTHER -> result
                   /\ i_step' = IF outcome = "continue" THEN i_step + 1 ELSE i_step
                   /\ pre' = t
                   /\ ticks' = ticks + 1
    /\ UNCHANGED <<fed, board, own_player_id, max_steps, clear_on_death, CallHistory>>

Next ==
    \/ FeedPos
    \/ FeedDeath
    \/ StartPlayout
    \/ Tick

Spec == Init /\ [][Next]_vars

\* ------------------------------------------------- the tracker on its own
\* BoardTracker::new followed by up to MaxCalls calls of record_pos and
\* record_death, in any order and with any player ids and in-bounds positions.
CallRecordPos ==
    /\ pc = "feed"
    /\ fed < MaxCalls
    /\ \E player_id \in PlayerIds, pos \in Positions(heap[LIVE]) :
          /\ heap' = [heap EXCEPT ![LIVE] = record_pos(@, player_id, pos)]
          /\ call' = [op |-> "record_pos", player_id |-> player_id, pos |-> pos,
                      clear |-> FALSE,
                      ret |-> record_pos_duplicate(heap[LIVE], pos),
                      before |-> heap[LIVE],
                      seen_before |-> recorded \cup notified]
          /\ recorded' = recorded \cup {player_id}
    /\ fed' = fed + 1
    /\ UNCHANGED <<pc, board, PlayoutLocals, ticks, notified>>

CallRecordDeath ==
    /\ pc = "feed"
    /\ fed < MaxCalls
    /\ \E player_id \in PlayerIds, clear \in BOOLEAN :
          /\ heap' = [heap EXCEPT ![LIVE] = record_death(@, player_id, clear)]
          /\ call' = [op |-> "record_death", player_id |-> player_id, pos |-> None,
                      clear |-> clear,
                      ret |-> None,
                      before |-> heap[LIVE],
                      seen_before |-> recorded \cup notified]
          /\ notified' = notified \cup {player_id}
    /\ fed' = fed + 1
    /\ UNCHANGED <<pc, board, PlayoutLocals, ticks, recorded>>

TrackerNext ==
    \/ CallRecordPos
    \/ CallRecordDeath

TrackerSpec == Init /\ [][TrackerNext]_vars

\* ------------------------------------------------------ the move selector
\* The Monte-Carlo move selector (specification section 4.7); its code is not
\* among the sources.  One decision: the feed has brought the live tracker to
\* some state, the selector is called for an alive player with a position,
\* runs playouts until the budget expires (at most MaxPlayouts here) and
\* returns.  `call` holds the selector's locals.  A playout is represented by
\* its score alone.

\* Step 1: the directions, in enumeration order, whose target cell is
\* unoccupied on the live board.
no_crash_directions(t, own) ==
    SelectSeq(all_directions,
              LAMBDA d : get_cell_player(t, offset_pos(t, get_player_latest_pos(t, own), d))
                            = None)

\* Scores are kept as multiples of 1 / ScoreScale, which 1, 2 and 3 remaining
\* players divide.
ScoreScale == 6

\* Step 3: the scores a playout can get: 0 (died), 1 (won), 1 / remaining.
PlayoutScores(t) ==
    {0, ScoreScale} \cup {ScoreScale \div r : r \in 2..count_alive(t)}

\* Step 4: the candidates with the highest mean score among those that have a
\* completed playout; the first candidate when none has.
BestCandidates(c) ==
    IF \A k \in 1..Len(c.no_crash) : c.counts[k] = 0 THEN {1}
    ELSE {k \in 1..Len(c.no_crash) :
            /\ c.counts[k] > 0
            /\ \A j \in 1..Len(c.no_crash) :
                  c.counts[j] > 0 => c.sums[k] * c.counts[j] >= c.sums[j] * c.counts[k]}

\* Step 1: the call, up to the first playout.
SelectMove ==
    /\ pc = "feed"
    /\ \E own \in PlayerIdsOf(heap[LIVE]) :
          /\ ~is_dead(heap[LIVE], own)
          /\ get_player_latest_pos(heap[LIVE], own) # None
          /\ \E nc \in {no_crash_directions(heap[LIVE], own)} :
             \E fallback \in Directions :
                /\ call' = [op |-> "select_move", own |-> own, no_crash |-> nc,
                            sums |-> [k \in 1..Len(nc) |-> 0],
                            counts |-> [k \in 1..Len(nc) |-> 0],
                            next |-> 1, playouts |-> 0,
                            ret |-> IF Len(nc) = 0 THEN <<fallback>>
                                    ELSE IF Len(nc) = 1 THEN <<nc[1]>>
                                    ELSE None]
                /\ pc' = IF Len(nc) <= 1 THEN "selected" ELSE "select"
    /\ UNCHANGED <<heap, fed, board, PlayoutLocals, ticks, recorded, notified>>

\* Steps 2 and 3: one playout for the next candidate in round-robin order.
SelectPlayout ==
    /\ pc = "select"
    /\ call.playouts < MaxPlayouts
    /\ \E score \in PlayoutScores(heap[LIVE]) :
          call' = [call EXCEPT !.sums[call.next] = @ + score,
                               !.counts[call.next] = @ + 1,
                               !.next = (call.next % Len(call.no_crash)) + 1,
                               !.playouts = @ + 1]
    /\ UNCHANGED <<heap, fed, pc, board, PlayoutLocals, ticks, recorded, notified>>

\* Step 4: the budget has expired.
SelectReturn ==
    /\ pc = "select"
    /\ \E k \in BestCandidates(call) :
          call' = [call EXCEPT !.ret = <<call.no_crash[k]>>]
    /\ pc' = "selected"
    /\ UNCHANGED <<heap, fed, board, PlayoutLocals, ticks, recorded, notified>>

SelectorNext ==
    \/ FeedPos
    \/ FeedDeath
    \/ SelectMove
    \/ SelectPlayout
    \/ SelectReturn

SelectorSpec == Init /\ [][SelectorNext]_vars

\* ------------------------------------- the geometry and the analyses alone
\* Calls of the pure functions with every input the bounds allow; no tracker
\* and no playout is involved.  The functions keep no state between calls, so
\* a run makes one call, or an offset_pos call and the call that undoes it.
LibraryInit ==
    /\ heap = [a \in Addrs |-> new(0, 0)]
    /\ fed = 0
    /\ pc = "library"
    /\ board = LIVE
    /\ own_player_id = 0
    /\ max_steps = 0
    /\ clear_on_death = FALSE
    /\ i_step = 0
    /\ count_dead_before_turn = 0
    /\ new_pos_by_player = <<>>
    /\ next_occupied_count = <<>>
    /\ result = None
    /\ pre = None
    /\ ticks = 0
    /\ call = None
    /\ recorded = {}
    /\ notified = {}

LibraryFrame == <<heap, fed, pc, board, PlayoutLocals, ticks, recorded, notified>>

\* Board sizes of sides up to MaxSide, and positions on and off them.
SideSizes == (1..MaxSide) \X (1..MaxSide)

SidePositions == (0..MaxSide) \X (0..MaxSide)

\* Board sizes of at most MaxArea cells.
AreaSizes == {s \in (1..MaxArea) \X (1..MaxArea) : s[1] * s[2] <= MaxArea}

\* direction.offset_pos(pos, size)
CallOffsetPos ==
    /\ pc = "library"
    /\ call = None
    /\ \E size \in SideSizes, pos \in SidePositions, d \in Directions :
          call' = [op |-> "offset_pos", direction |-> d, pos |-> pos, size |-> size,
                   ret |-> direction_offset_pos(d, pos, size)]
    /\ UNCHANGED LibraryFrame

\* direction.reverse().offset_pos(p, size) on the position p that the last
\* offset_pos call returned.
CallOffsetBack ==
    /\ pc = "library"
    /\ call # None
    /\ call.op = "offset_pos"
    /\ call.ret # InvalidPosition
    /\ call' = [op |-> "offset_back", direction |-> reverse(call.direction),
                pos |-> call.ret, size |-> call.size,
                ret |-> direction_offset_pos(reverse(call.direction), call.ret,
                                             call.size),
                origin |-> call.pos]
    /\ UNCHANGED LibraryFrame

\* calculate_distances(size, &mask)
CallCalculateDistances ==
    /\ pc = "library"
    /\ call = None
    /\ \E size \in AreaSizes :
       \E mask \in [1..(size[1] * size[2]) -> BOOLEAN] :
          call' = [op |-> "calculate_distances", size |-> size, mask |-> mask,
                   ret |-> calculate_distances(size, mask),
                   sources |-> calculate_distances_sources(size, mask)]
    /\ UNCHANGED LibraryFrame

\* calculate_reachable(size, &mask, start_pos)
CallCalculateReachable ==
    /\ pc = "library"
    /\ call = None
    /\ \E size \in AreaSizes :
       \E mask \in [1..(size[1] * size[2]) -> BOOLEAN],
          start_pos \in (0..(size[1] - 1)) \X (0..(size[2] - 1)) :
          call' = [op |-> "calculate_reachable", size |-> size, mask |-> mask,
                   start_pos |-> start_pos,
                   ret |-> calculate_reachable(size, mask, start_pos)]
    /\ UNCHANGED LibraryFrame

\* shortest_path_next_direction(size, &mask, start_pos, target_pos)
CallShortestPath ==
    /\ pc = "library"
    /\ call = None
    /\ \E size \in AreaSizes :
       \E mask \in [1..(size[1] * size[2]) -> BOOLEAN],
          start_pos \in (0..(size[1] - 1)) \X (0..(size[2] - 1)),
          target_pos \in (0..(size[1] - 1)) \X (0..(size[2] - 1)) :
       \E ret \in shortest_path_next_direction(size, mask, start_pos, target_pos) :
          call' = [op |-> "shortest_path_next_direction", size |-> size,
                   mask |-> mask, start_pos |-> start_pos, target_pos |-> target_pos,
                   ret |-> ret]
    /\ UNCHANGED LibraryFrame

LibraryNext ==
    \/ CallOffsetPos
    \/ CallOffsetBack
    \/ CallCalculateDistances
    \/ CallCalculateReachable
    \/ CallShortestPath

LibrarySpec == LibraryInit /\ [][LibraryNext]_vars

\* ------------------------------------------------------------- properties
\* The tracker run_playout works on.
Sim == heap[board]

\* The owner stored for the cell at pos (NO_PLAYER when unoccupied).
OwnerAt(t, pos) == t.board[CellIndex(t, pos)]

\* The cell player p chose in the tick that was last started.
Target(p) == new_pos_by_player[p + 1]

\* The target of p was unoccupied when the tick began and nobody else chose it.
TargetFree(p) ==
    /\ OwnerAt(pre, Target(p)) = NO_PLAYER
    /\ \A q \in AlivePlayers(pre) \ {p} : Target(q) # Target(p)

\* The move of p was recorded: p is alive at its target and owns it.
Accepted(p) ==
    /\ ~is_dead(Sim, p)
    /\ get_player_latest_pos(Sim, p) = Target(p)
    /\ OwnerAt(Sim, Target(p)) = p

\* Every order in which the loop of lines 50-59 could visit the players.
Orders(n) == {o \in [1..n -> 0..(n - 1)] : \A i, j \in 1..n : i # j => o[i] # o[j]}

Panics == {"panic_unwrap", "panic_assert", "panic_overflow"}

\* At least one tick was simulated and the playout did not panic: pre,
\* new_pos_by_player and next_occupied_count are those of the last tick.
TickDone == ticks > 0 /\ pc \in {"moves", "done"}

\* C1: after a tick, every player that was alive when
\* the tick began has its move accepted exactly when its target was unoccupied
\* at the start of the tick and no other alive player chose the same target;
\* in every other case it is dead.
C1_AcceptedIffTargetFree ==
    TickDone =>
        \A p \in AlivePlayers(pre) :
            /\ TargetFree(p) <=> Accepted(p)
            /\ ~TargetFree(p) => is_dead(Sim, p)

\* Two adjacent players moved into each other's cells and both are dead.
C1_Witness ==
    /\ TickDone
    /\ \E p, q \in AlivePlayers(pre) :
          /\ p # q
          /\ Target(p) = get_player_latest_pos(pre, q)
          /\ Target(q) = get_player_latest_pos(pre, p)
          /\ Target(p) # Target(q)
          /\ is_dead(Sim, p) /\ is_dead(Sim, q)

\* C2: two distinct alive players that chose the same cell, empty when the
\* tick began, are both dead after the tick and the cell is still unoccupied,
\* whatever clear_on_death is.
C2_ContestedCellKillsAll ==
    TickDone =>
        \A p, q \in AlivePlayers(pre) :
            (p # q /\ Target(p) = Target(q) /\ OwnerAt(pre, Target(p)) = NO_PLAYER)
            => /\ is_dead(Sim, p)
               /\ is_dead(Sim, q)
               /\ OwnerAt(Sim, Target(p)) = NO_PLAYER

\* Two players chose the same empty cell in a playout that does not clear.
C2_Witness ==
    /\ TickDone
    /\ ~clear_on_death
    /\ \E p, q \in AlivePlayers(pre) :
          /\ p # q
          /\ Target(p) = Target(q)
          /\ OwnerAt(pre, Target(p)) = NO_PLAYER
          /\ is_dead(Sim, p) /\ is_dead(Sim, q)

\* C3: when the own player is dead after a tick the playout returns at once,
\* with did_die, not did_win, beaten_players the number of players dead when
\* that tick began, remaining_players the number alive after it and
\* survived_steps the 0-based index of that tick; also when one or no other
\* player is left.
C3_OwnDeathFirst ==
    /\ (pc = "done" /\ is_dead(Sim, own_player_id)) =>
          result = [beaten_players |-> count_dead(pre),
                    remaining_players |-> count_alive(Sim),
                    survived_steps |-> ticks - 1,
                    did_win |-> FALSE, did_die |-> TRUE]
    /\ (pc = "moves" /\ ticks > 0) => ~is_dead(Sim, own_player_id)

\* The own player died while exactly one other player stayed alive.
C3_Witness ==
    /\ pc = "done"
    /\ is_dead(Sim, own_player_id)
    /\ count_alive(Sim) = 1
    /\ result.did_die

\* C4: when after a tick the own player is alive and is the only one alive,
\* the playout returns at once with did_win, not did_die, remaining_players 1,
\* beaten_players the number dead after the tick and survived_steps the tick's
\* index plus one; also on the last tick the cap allows.
C4_WinBeforeCap ==
    /\ (pc = "done" /\ ~is_dead(Sim, own_player_id) /\ count_alive(Sim) = 1) =>
          result = [beaten_players |-> count_dead(Sim),
                    remaining_players |-> 1,
                    survived_steps |-> ticks,
                    did_win |-> TRUE, did_die |-> FALSE]
    /\ (pc = "moves" /\ ticks > 0) => count_alive(Sim) # 1

\* A win on the last tick the cap allows, another player having died in it.
C4_Witness ==
    /\ pc = "done"
    /\ ticks = max_steps
    /\ result.did_win
    /\ count_dead(Sim) > count_dead(pre)

\* C5: when max_steps ticks are simulated and after the last one the own
\* player is alive and not the only one alive, the result is neither a win nor
\* a death, with beaten_players the number dead, remaining_players the number
\* alive and survived_steps = max_steps.
C5_StepCapResult ==
    (pc = "done" /\ ticks = max_steps /\ ~is_dead(Sim, own_player_id)
       /\ count_alive(Sim) # 1) =>
          result = [beaten_players |-> count_dead(Sim),
                    remaining_players |-> count_alive(Sim),
                    survived_steps |-> max_steps,
                    did_win |-> FALSE, did_die |-> FALSE]

\* The cap ended a playout with two players alive.
C5_Witness ==
    /\ pc = "done"
    /\ ticks = max_steps
    /\ ~result.did_win /\ ~result.did_die
    /\ result.remaining_players = 2

\* C6: from every start board, with every choice of the policies and every
\* max_steps > 0, run_playout never panics and never simulates more than
\* max_steps ticks.
C6_NoPanicWithinCap ==
    /\ pc \notin Panics
    /\ pc # "feed" => ticks <= max_steps
    /\ pc = "moves" => ticks < max_steps

\* C7: whatever run_playout does to the clone it was given, the tracker it was
\* cloned from keeps its cells, latest positions, dead flags and players.
C7_CloneIndependent == [][pc' # "feed" => heap'[LIVE] = heap[LIVE]]_vars

\* A finished playout whose tracker differs from the live one in a cell, in a
\* latest position and in a dead flag.
C7_Witness ==
    /\ pc = "done"
    /\ board = SIM
    /\ heap[SIM].board # heap[LIVE].board
    /\ \E p \in PlayerIdsOf(Sim) :
          get_player_latest_pos(Sim, p) # get_player_latest_pos(heap[LIVE], p)
    /\ \E p \in PlayerIdsOf(Sim) : is_dead(Sim, p) # is_dead(heap[LIVE], p)

\* C9: the board after a tick is the one every order of applying the players'
\* accept/die steps yields from the board and the targets of the tick's start.
C9_OrderIndependent ==
    TickDone =>
        \A order \in Orders(Len(new_pos_by_player)) :
            ApplyInOrder(pre, new_pos_by_player, next_occupied_count,
                         clear_on_death, order) = Sim

\* A player moved into a cell of another player who died and was cleared in
\* the same tick.
C9_Witness ==
    /\ TickDone
    /\ clear_on_death
    /\ \E p, q \in AlivePlayers(pre) :
          /\ p # q
          /\ OwnerAt(pre, Target(p)) = q
          /\ is_dead(Sim, q)
          /\ is_dead(Sim, p)
          /\ OwnerAt(Sim, Target(p)) = NO_PLAYER

Live == heap[LIVE]

Before == call.before

Called(op) == call # None /\ call.op = op

\* C11: record_pos(player_id, pos) returns true exactly when the cell at pos
\* had an owner before the call; afterwards player_id owns the cell, has pos as
\* its latest position and is not dead, and every other cell has the owner it
\* had.
C11_RecordPos ==
    Called("record_pos") =>
        /\ call.ret <=> (OwnerAt(Before, call.pos) # NO_PLAYER)
        /\ OwnerAt(Live, call.pos) = call.player_id
        /\ get_player_latest_pos(Live, call.player_id) = call.pos
        /\ ~is_dead(Live, call.player_id)
        /\ \A other \in Positions(Live) \ {call.pos} :
              OwnerAt(Live, other) = OwnerAt(Before, other)

\* A dead player was recorded on a cell it owned itself: the call returned
\* true and the player is alive again.
C11_Witness ==
    /\ Called("record_pos")
    /\ call.player_id < count_seen(Before)
    /\ is_dead(Before, call.player_id)
    /\ OwnerAt(Before, call.pos) = call.player_id
    /\ call.ret
    /\ ~is_dead(Live, call.player_id)

\* C12: record_death(player_id, clear) marks player_id dead; with clear every
\* cell of player_id becomes unoccupied and every other cell keeps its owner,
\* without clear no cell changes; no other player's dead flag changes.
C12_RecordDeath ==
    Called("record_death") =>
        /\ is_dead(Live, call.player_id)
        /\ \A pos \in Positions(Live) :
              OwnerAt(Live, pos) =
                  IF call.clear /\ OwnerAt(Before, pos) = call.player_id
                  THEN NO_PLAYER
                  ELSE OwnerAt(Before, pos)
        /\ \A p \in PlayerIdsOf(Before) \ {call.player_id} :
              is_dead(Live, p) = is_dead(Before, p)

\* A clearing death of a player that owned a cell, on a board where another
\* player owns a cell too and stays alive.
C12_Witness ==
    /\ Called("record_death")
    /\ call.clear
    /\ \E pos \in Positions(Live) :
          OwnerAt(Before, pos) = call.player_id /\ OwnerAt(Live, pos) = NO_PLAYER
    /\ \E pos \in Positions(Live), q \in PlayerIdsOf(Before) \ {call.player_id} :
          OwnerAt(Live, pos) = q /\ ~is_dead(Live, q)

\* C13: after any sequence of record_pos and record_death calls, every
\* player that is not dead and has a latest position owns the cell there.
C13_AliveOwnsLatestPos ==
    \A p \in PlayerIdsOf(Live) :
        (~is_dead(Live, p) /\ get_player_latest_pos(Live, p) # None)
        => get_cell_player(Live, get_player_latest_pos(Live, p)) = <<p>>

\* C14: a cell that had an owner has the same owner after the next call,
\* unless that call was record_death(owner, clear = true), which resets it.
C14_OwnerKeptUntilCleared ==
    call # None =>
        \A pos \in Positions(Live) :
            (OwnerAt(Before, pos) # NO_PLAYER
               /\ OwnerAt(Live, pos) # OwnerAt(Before, pos))
            => /\ call.op = "record_death"
               /\ call.clear
               /\ call.player_id = OwnerAt(Before, pos)
               /\ OwnerAt(Live, pos) = NO_PLAYER

\* C15: count_seen() is the number of distinct player ids passed to
\* record_pos so far, and an id never passed to record_pos is not tracked.
C15_CountSeenDistinctRecorded ==
    /\ count_seen(Live) = Cardinality(recorded)
    /\ \A p \in PlayerIds \ recorded : p \notin PlayerIdsOf(Live)

\* C16: a call for a player id that no call named before succeeds, whether
\* the id is below or above the ids tracked: record_pos makes the player
\* tracked, alive and at the position; record_death makes it tracked, dead and
\* without latest position, and changes no cell.
C16_UnseenIdTolerated ==
    (call # None /\ call.player_id \notin call.seen_before) =>
        /\ call.player_id \in PlayerIdsOf(Live)
        /\ call.op = "record_pos" =>
              /\ ~is_dead(Live, call.player_id)
              /\ get_player_latest_pos(Live, call.player_id) = call.pos
        /\ call.op = "record_death" =>
              /\ is_dead(Live, call.player_id)
              /\ get_player_latest_pos(Live, call.player_id) = None
              /\ Live.board = Before.board

\* A clearing death notice for an id that no call had named, below the id of
\* a player that owns a cell.
C16_Witness ==
    /\ Called("record_death")
    /\ call.clear
    /\ call.player_id \notin call.seen_before
    /\ \E pos \in Positions(Live) : OwnerAt(Live, pos) > call.player_id
    /\ is_dead(Live, call.player_id)

\* The four cells next to pos on the torus of the given size.
NeighbourCells(pos, size) ==
    { <<(pos[1] + 1) % size[1], pos[2]>>,
      <<(pos[1] + size[1] - 1) % size[1], pos[2]>>,
      <<pos[1], (pos[2] + 1) % size[2]>>,
      <<pos[1], (pos[2] + size[2] - 1) % size[2]>> }

\* The players other than own whose latest position has pos as a neighbour.
NextToOther(t, own, pos) ==
    \E p \in PlayerIdsOf(t) \ {own} :
        /\ get_player_latest_pos(t, p) # None
        /\ pos \in NeighbourCells(get_player_latest_pos(t, p), board_size(t))

\* C17: occupied_mask() is true exactly at the owned cells;
\* conservative_occupied_mask(own) is true exactly at the owned cells and at
\* the neighbour cells of the latest position of every tracked player other
\* than own (so at a neighbour of own only if it is owned or next to
\* another player), and is true wherever occupied_mask() is.
C17_Masks ==
    \A own \in 0..MaxPlayers :
        \A pos \in Positions(Live) :
            /\ occupied_mask(Live)[CellIndex(Live, pos)]
                  <=> (OwnerAt(Live, pos) # NO_PLAYER)
            /\ conservative_occupied_mask(Live, own)[CellIndex(Live, pos)]
                  <=> (OwnerAt(Live, pos) # NO_PLAYER \/ NextToOther(Live, own, pos))
            /\ occupied_mask(Live)[CellIndex(Live, pos)]
                  => conservative_occupied_mask(Live, own)[CellIndex(Live, pos)]

\* A tracked player with a neighbour cell that its conservative mask leaves
\* free, while the mask covers an unowned cell next to another player.
C17_Witness ==
    \E own \in PlayerIdsOf(Live) :
        /\ get_player_latest_pos(Live, own) # None
        /\ \E pos \in NeighbourCells(get_player_latest_pos(Live, own), board_size(Live)) :
              ~conservative_occupied_mask(Live, own)[CellIndex(Live, pos)]
        /\ \E pos \in Positions(Live) :
              /\ conservative_occupied_mask(Live, own)[CellIndex(Live, pos)]
              /\ ~occupied_mask(Live)[CellIndex(Live, pos)]

\* ------------------------------- properties: geometry and distance field
InBounds(pos, size) == pos[1] < size[1] /\ pos[2] < size[2]

\* C18: on every board of width and height at least 1, offsetting an
\* in-bounds position in a direction and then in the reverse direction gives
\* the position back.
C18_OffsetRoundTrip ==
    Called("offset_back") => call.ret = call.origin

\* A round trip over the edge of a board of width 2: Left from column 0, and
\* back.
C18_Witness ==
    /\ Called("offset_back")
    /\ call.size[1] = 2
    /\ call.origin[1] = 0
    /\ call.direction = "Right"
    /\ call.pos[1] = 1
    /\ call.ret = call.origin

\* v is w plus or minus one modulo n.
StepApart(v, w, n) == v = (w + 1) % n \/ w = (v + 1) % n

\* C19: offset_pos fails its assert for every position with x >= width or
\* y >= height; for an in-bounds position it returns an in-bounds position
\* that is the input on the other axis and one step away, modulo the size,
\* on the axis of the direction.
C19_OffsetAssertsOrSteps ==
    Called("offset_pos") =>
        IF ~InBounds(call.pos, call.size)
        THEN call.ret = InvalidPosition
        ELSE /\ call.ret # InvalidPosition
             /\ InBounds(call.ret, call.size)
             /\ call.direction \in {"Left", "Right"} =>
                   /\ call.ret[2] = call.pos[2]
                   /\ StepApart(call.ret[1], call.pos[1], call.size[1])
             /\ call.direction \in {"Up", "Down"} =>
                   /\ call.ret[1] = call.pos[1]
                   /\ StepApart(call.ret[2], call.pos[2], call.size[2])

\* The assert failed for a position whose x is the width, its y in bounds.
C19_Witness ==
    /\ Called("offset_pos")
    /\ call.pos[1] = call.size[1]
    /\ call.pos[2] < call.size[2]
    /\ call.ret = InvalidPosition

\* The cells at most k hops from an occupied cell, as positions.
RECURSIVE WithinHops(_, _, _)
WithinHops(size, mask, k) ==
    IF k = 0
    THEN {pos \in (0..(size[1] - 1)) \X (0..(size[2] - 1)) :
            mask[pos[2] * size[1] + pos[1] + 1]}
    ELSE WithinHops(size, mask, k - 1)
         \cup UNION {NeighbourCells(pos, size) : pos \in WithinHops(size, mask, k - 1)}

\* The least number of hops from pos to an occupied cell.
HopDistance(size, mask, pos) ==
    CHOOSE k \in 0..(size[1] * size[2]) :
        /\ pos \in WithinHops(size, mask, k)
        /\ \A j \in 0..(k - 1) : pos \notin WithinHops(size, mask, j)

\* The value calculate_distances returned for the cell at pos.
DistanceAt(pos) == call.ret[pos[2] * call.size[1] + pos[1] + 1]

\* C20: for a mask with an occupied cell, calculate_distances gives every cell
\* its least number of toroidal hops to an occupied cell: 0 exactly at the
\* occupied cells, and values of adjacent cells at most 1 apart.
C20_DistanceField ==
    (Called("calculate_distances") /\ \E i \in DOMAIN call.mask : call.mask[i]) =>
        \A pos \in (0..(call.size[1] - 1)) \X (0..(call.size[2] - 1)) :
            /\ DistanceAt(pos) = HopDistance(call.size, call.mask, pos)
            /\ DistanceAt(pos) = 0 <=> call.mask[pos[2] * call.size[1] + pos[1] + 1]
            /\ \A next \in NeighbourCells(pos, call.size) :
                  /\ DistanceAt(next) <= DistanceAt(pos) + 1
                  /\ DistanceAt(pos) <= DistanceAt(next) + 1

\* A board of two rows with two occupied cells, where the cell in the far
\* corner is one hop away over the edge and another cell is two hops away.
C20_Witness ==
    /\ Called("calculate_distances")
    /\ call.size = <<3, 2>>
    /\ Cardinality({i \in DOMAIN call.mask : call.mask[i]}) = 2
    /\ call.mask[1]
    /\ DistanceAt(<<2, 0>>) = 1
    /\ \E pos \in (0..2) \X (0..1) : DistanceAt(pos) = 2

\* C21: calculate_distances terminates for every mask, after at most one
\* iteration per cell; a cell keeps usize::MAX exactly when no occupied cell is
\* within any number of hops of it; no iteration has usize::MAX as its source
\* distance, so usize::MAX is never incremented.
C21_SentinelOnlyUnreached ==
    Called("calculate_distances") =>
        /\ Len(call.sources) <= call.size[1] * call.size[2]
        /\ \A pos \in (0..(call.size[1] - 1)) \X (0..(call.size[2] - 1)) :
              DistanceAt(pos) = USIZE_MAX
                 <=> pos \notin WithinHops(call.size, call.mask,
                                           call.size[1] * call.size[2])
        /\ \A i \in 1..Len(call.sources) : call.sources[i] # USIZE_MAX

\* A board of several cells none of which is occupied: every cell keeps the
\* sentinel and no iteration ran.
C21_Witness ==
    /\ Called("calculate_distances")
    /\ call.size[1] * call.size[2] >= 4
    /\ \A i \in DOMAIN call.mask : ~call.mask[i]
    /\ \A i \in DOMAIN call.ret : call.ret[i] = USIZE_MAX
    /\ call.sources = <<>>

\* ---------------------------------------------- properties: reachability
\* All positions of a board of the given size.
SizePositions(size) == (0..(size[1] - 1)) \X (0..(size[2] - 1))

\* The entry of a mask or field for the cell at pos.
At(field, size, pos) == field[pos[2] * size[1] + pos[1] + 1]

\* C22 as stated: no cell that the mask blocks is marked reachable.
C22_NoBlockedCellReachable ==
    Called("calculate_reachable") =>
        \A pos \in SizePositions(call.size) :
            At(call.mask, call.size, pos) => ~At(call.ret, call.size, pos)

\* C22, amended: no cell other than the start cell that the mask blocks is
\* marked reachable.
C22_NoBlockedCellButStartReachable ==
    Called("calculate_reachable") =>
        \A pos \in SizePositions(call.size) \ {call.start_pos} :
            At(call.mask, call.size, pos) => ~At(call.ret, call.size, pos)

\* A fill from a blocked start that reached a free cell next to a blocked
\* cell, which stayed unmarked.
C22_Witness ==
    /\ Called("calculate_reachable")
    /\ At(call.mask, call.size, call.start_pos)
    /\ At(call.ret, call.size, call.start_pos)
    /\ \E pos \in SizePositions(call.size) \ {call.start_pos} :
          /\ At(call.ret, call.size, pos)
          /\ \E next \in NeighbourCells(pos, call.size) \ {call.start_pos} :
                At(call.mask, call.size, next) /\ ~At(call.ret, call.size, next)

\* The cells that a path of at most k hops from start reaches, every cell of
\* the path after the start being unblocked.
RECURSIVE FreeWithin(_, _, _, _)
FreeWithin(size, mask, start, k) ==
    IF k = 0 THEN {start}
    ELSE FreeWithin(size, mask, start, k - 1)
         \cup {next \in UNION {NeighbourCells(pos, size) :
                                  pos \in FreeWithin(size, mask, start, k - 1)} :
                 ~At(mask, size, next)}

\* The flood fill with the most recently found cell visited first.
RECURSIVE FillNewestFirst(_, _, _)
FillNewestFirst(size, mask, st) ==
    IF st.queue = <<>> THEN st.reachable
    ELSE FillNewestFirst(size, mask,
             reachable_expand(size, mask,
                 [st EXCEPT !.queue = SubSeq(@, 1, Len(@) - 1)],
                 st.queue[Len(st.queue)], all_directions))

\* C23: the start cell is marked reachable whatever the mask says; any other
\* cell is marked exactly when a toroidal path leads from the start to it over
\* unblocked cells; visiting the cells in the opposite order marks the same
\* cells.
C23_ReachableIffFreePath ==
    Called("calculate_reachable") =>
        /\ At(call.ret, call.size, call.start_pos)
        /\ \A pos \in SizePositions(call.size) \ {call.start_pos} :
              At(call.ret, call.size, pos)
                 <=> pos \in FreeWithin(call.size, call.mask, call.start_pos,
                                        call.size[1] * call.size[2])
        /\ call.ret = FillNewestFirst(call.size, call.mask,
                                      reachable_seed(call.size, call.start_pos))

\* A fill from a blocked start that reached a cell two hops away and left an
\* unblocked cell, cut off by blocked cells, unmarked.
C23_Witness ==
    /\ Called("calculate_reachable")
    /\ At(call.mask, call.size, call.start_pos)
    /\ At(call.ret, call.size, call.start_pos)
    /\ \E pos \in SizePositions(call.size) :
          /\ At(call.ret, call.size, pos)
          /\ pos \notin NeighbourCells(call.start_pos, call.size) \cup {call.start_pos}
    /\ \E pos \in SizePositions(call.size) :
          ~At(call.mask, call.size, pos) /\ ~At(call.ret, call.size, pos)

\* --------------------------------------------- properties: path resolver
\* The neighbour of pos in direction d on the torus of the given size.
StepCell(pos, d, size) ==
    CASE d = "Up" -> <<pos[1], (pos[2] + size[2] - 1) % size[2]>>
      [] d = "Down" -> <<pos[1], (pos[2] + 1) % size[2]>>
      [] d = "Left" -> <<(pos[1] + size[1] - 1) % size[1], pos[2]>>
      [] d = "Right" -> <<(pos[1] + 1) % size[1], pos[2]>>

\* A cell is free for the path resolver when the mask does not block it or it
\* is the start cell.
PathFree(pos) == ~At(call.mask, call.size, pos) \/ pos = call.start_pos

\* The free cells from which the target is at most k hops away over free
\* cells.
RECURSIVE FreeNear(_)
FreeNear(k) ==
    IF k = 0 THEN {pos \in {call.target_pos} : PathFree(pos)}
    ELSE UNION { prev \cup {next \in UNION {NeighbourCells(pos, call.size) : pos \in prev} :
                               PathFree(next)} :
                 prev \in {FreeNear(k - 1)} }

Cells == call.size[1] * call.size[2]

\* The length of the shortest path over free cells from pos to the target,
\* for a pos from which there is one.
FreeDistance(pos) ==
    CHOOSE k \in 0..Cells : pos \in FreeNear(k) /\ \A j \in 0..(k - 1) : pos \notin FreeNear(j)

\* C24: when the target is not the start and a path over free cells (the
\* start counting as free) leads from the start to it, the function returns
\* a direction whose cell next to the start is unblocked and one hop nearer
\* to the target than the start.
C24_FirstStepOfShortestPath ==
    (Called("shortest_path_next_direction")
       /\ call.target_pos # call.start_pos
       /\ call.start_pos \in FreeNear(Cells)) =>
        /\ call.ret \in {<<d>> : d \in Directions}
        /\ ~At(call.mask, call.size, StepCell(call.start_pos, call.ret[1], call.size))
        /\ StepCell(call.start_pos, call.ret[1], call.size) \in FreeNear(Cells)
        /\ FreeDistance(StepCell(call.start_pos, call.ret[1], call.size))
              = FreeDistance(call.start_pos) - 1

\* A start that the mask blocks, with a blocked neighbour and a target three
\* or more hops away: a direction was returned.
C24_Witness ==
    /\ Called("shortest_path_next_direction")
    /\ At(call.mask, call.size, call.start_pos)
    /\ \E next \in NeighbourCells(call.start_pos, call.size) \ {call.start_pos} :
          At(call.mask, call.size, next)
    /\ call.start_pos \in FreeNear(Cells)
    /\ call.start_pos \notin FreeNear(2)
    /\ call.ret \in {<<d>> : d \in Directions}

\* C25: the function returns no direction when the start is the target, when
\* the mask blocks the target, when the mask blocks all four neighbours of
\* the start, and whenever no path over free cells joins start and target; it
\* never panics with "steps in path aren't adjacent".
C25_NoDirectionWithoutPath ==
    Called("shortest_path_next_direction") =>
        /\ call.ret # NotAdjacentPanic
        /\ call.start_pos = call.target_pos => call.ret = None
        /\ At(call.mask, call.size, call.target_pos) => call.ret = None
        /\ (\A next \in NeighbourCells(call.start_pos, call.size) :
               At(call.mask, call.size, next)) => call.ret = None
        /\ call.start_pos \notin FreeNear(Cells) => call.ret = None

\* No direction for a free target other than the start, the start having an
\* unblocked neighbour: blocked cells cut the target off.
C25_Witness ==
    /\ Called("shortest_path_next_direction")
    /\ call.target_pos # call.start_pos
    /\ ~At(call.mask, call.size, call.target_pos)
    /\ \E next \in NeighbourCells(call.start_pos, call.size) \ {call.start_pos} :
          ~At(call.mask, call.size, next)
    /\ call.ret = None

\* --------------------------------------------- properties: move selector
\* The directions in which the cell next to the own player's position has no
\* owner on the live board.
SafeDirections ==
    {d \in Directions :
        OwnerAt(Live, StepCell(get_player_latest_pos(Live, call.own), d,
                               board_size(Live))) = NO_PLAYER}

\* C26: the selector returns exactly one direction; when no direction is safe
\* it returns some direction without a playout, when exactly one is safe it
\* returns that one without a playout, and otherwise it returns a safe
\* direction.
C26_SelectorReturnsSafeDirection ==
    pc = "selected" =>
        /\ call.ret \in {<<d>> : d \in Directions}
        /\ Cardinality(SafeDirections) <= 1 => call.playouts = 0
        /\ SafeDirections # {} => call.ret[1] \in SafeDirections

\* A decision between at least two safe directions, next to an occupied
\* cell, after playouts: a candidate other than the first was returned.
C26_Witness ==
    /\ pc = "selected"
    /\ Cardinality(SafeDirections) \in 2..3
    /\ call.playouts = MaxPlayouts
    /\ call.ret[1] \in SafeDirections
    /\ call.ret[1] # call.no_crash[1]

\* ------------------------------------- properties: the board in a playout
\* The playout's tracker at the moment the loop of lines 50-59 reaches player
\* p in the last tick: the steps of the players before p have been applied.
BoardWhenReached(p) ==
    ApplyInOrder(pre, new_pos_by_player, next_occupied_count, clear_on_death,
                 [i \in 1..p |-> i - 1])

\* C27: in a playout record_pos is called only on a cell that has no owner at
\* that moment (it would return false), and over a tick no cell goes from one
\* owner to another.
C27_PlayoutNeverOverwrites ==
    TickDone =>
        /\ \A p \in AlivePlayers(pre) :
              MoveAccepted(pre, next_occupied_count, Target(p))
              => ~record_pos_duplicate(BoardWhenReached(p), Target(p))
        /\ \A pos \in Positions(pre) :
              OwnerAt(pre, pos) # NO_PLAYER
              => OwnerAt(Sim, pos) \in {OwnerAt(pre, pos), NO_PLAYER}

\* A tick in which one player's move was recorded, after an earlier player
\* in the loop had moved onto an owned cell and died.
C27_Witness ==
    /\ TickDone
    /\ \E p, q \in AlivePlayers(pre) :
          /\ q < p
          /\ Accepted(p)
          /\ OwnerAt(pre, Target(q)) # NO_PLAYER
          /\ is_dead(Sim, q)

\* Every alive player of the tracker has a latest position on a cell it owns.
AliveOwnTheirCell(t) ==
    \A p \in AlivePlayers(t) :
        /\ get_player_latest_pos(t, p) # None
        /\ OwnerAt(t, get_player_latest_pos(t, p)) = p

\* The players that died in the playout (the live tracker is the board the
\* playout started from).
DiedInPlayout == {p \in PlayerIdsOf(Sim) : is_dead(Sim, p) /\ ~is_dead(Live, p)}

\* C28: if every alive player had a latest position on a cell it owned when
\* run_playout started, then after every tick every alive player's latest
\* position is on a cell it owns, no two alive players have the same latest
\* position, and with clear_on_death no cell is owned by a player that died
\* in the playout.
C28_PlayoutKeepsBoardConsistent ==
    (TickDone /\ AliveOwnTheirCell(Live)) =>
        /\ AliveOwnTheirCell(Sim)
        /\ \A p, q \in AlivePlayers(Sim) :
              p # q => get_player_latest_pos(Sim, p) # get_player_latest_pos(Sim, q)
        /\ clear_on_death =>
              \A pos \in Positions(Sim) : OwnerAt(Sim, pos) \notin DiedInPlayout

\* After a tick of a clearing playout from such a board, a player that owned
\* a cell at the start has died and another one is alive on a new cell.
C28_Witness ==
    /\ TickDone
    /\ AliveOwnTheirCell(Live)
    /\ clear_on_death
    /\ \E q \in DiedInPlayout : \E pos \in Positions(Live) : OwnerAt(Live, pos) = q
    /\ \E p \in AlivePlayers(Sim) :
          get_player_latest_pos(Sim, p) # get_player_latest_pos(Live, p)

\* --------------------------------- properties: the tracker's player list
\* The ids that the last call created besides its own: those from the number
\* of players tracked before the call up to the call's id.
CreatedBelow == {p \in PlayerIds : count_seen(Before) <= p /\ p < call.player_id}

\* C29: count_alive() + count_dead() = count_seen() in every state of the
\* tracker; a record_pos or record_death for id n with fewer than n + 1
\* players tracked makes every untracked id below n a player that is not dead
\* and has no latest position, and count_alive() counts these.
C29_CountsAndFillers ==
    /\ count_alive(Live) + count_dead(Live) = count_seen(Live)
    /\ (call # None /\ call.player_id >= count_seen(Before)) =>
          /\ count_seen(Live) = call.player_id + 1
          /\ \A p \in CreatedBelow :
                /\ p \in PlayerIdsOf(Live)
                /\ ~is_dead(Live, p)
                /\ get_player_latest_pos(Live, p) = None
          /\ count_alive(Live) = count_alive(Before) + Cardinality(CreatedBelow)
                                   + (IF call.op = "record_pos" THEN 1 ELSE 0)

\* A death notice for an id above the tracked ones created a lower id, which
\* is the only player counted as alive.
C29_Witness ==
    /\ Called("record_death")
    /\ CreatedBelow # {}
    /\ count_alive(Live) = Cardinality(CreatedBelow)
    /\ count_dead(Live) = 1

\* C30: record_death changes no player's latest position, that of the player
\* who died included, with clear true or false: get_player_latest_pos of the
\* dead player is still its last recorded cell, and the conservative mask of
\* any other player still marks the four neighbours of that cell.
C30_DeathKeepsLatestPos ==
    Called("record_death") =>
        /\ \A p \in PlayerIdsOf(Before) :
              get_player_latest_pos(Live, p) = get_player_latest_pos(Before, p)
        /\ get_player_latest_pos(Live, call.player_id)
              = get_player_latest_pos(Before, call.player_id)
        /\ get_player_latest_pos(Live, call.player_id) # None =>
              \A own \in (0..MaxPlayers) \ {call.player_id} :
                  \A next \in NeighbourCells(get_player_latest_pos(Live, call.player_id),
                                             board_size(Live)) :
                      conservative_occupied_mask(Live, own)[CellIndex(Live, next)]

\* A clearing death of a player with a position: its cell is unoccupied and
\* an unowned neighbour of it is marked in another player's conservative
\* mask.
C30_Witness ==
    /\ Called("record_death")
    /\ call.clear
    /\ get_player_latest_pos(Live, call.player_id) # None
    /\ OwnerAt(Live, get_player_latest_pos(Live, call.player_id)) = NO_PLAYER
    /\ \E own \in PlayerIdsOf(Live) \ {call.player_id} :
       \E next \in NeighbourCells(get_player_latest_pos(Live, call.player_id),
                                  board_size(Live)) :
          /\ OwnerAt(Live, next) = NO_PLAYER
          /\ next # get_player_latest_pos(Live, call.player_id)
          /\ conservative_occupied_mask(Live, own)[CellIndex(Live, next)]

\* ------------------------------------------ properties: the PlayoutResult
\* C31: every PlayoutResult returned is consistent: not both did_win and
\* did_die; did_die exactly when the own player is dead at return; did_win
\* only with one player remaining and the own player alive; survived_steps at
\* most max_steps; and, unless did_die, beaten_players + remaining_players
\* is count_seen().
C31_ResultConsistent ==
    pc = "done" =>
        /\ ~(result.did_win /\ result.did_die)
        /\ result.did_die <=> is_dead(Sim, own_player_id)
        /\ result.did_win =>
              (result.remaining_players = 1 /\ ~is_dead(Sim, own_player_id))
        /\ result.survived_steps <= max_steps
        /\ ~result.did_die =>
              result.beaten_players + result.remaining_players = count_seen(Sim)

\* A win returned with survived_steps = max_steps, one player beaten.
C31_Witness ==
    /\ pc = "done"
    /\ result.did_win
    /\ result.survived_steps = max_steps
    /\ result.beaten_players = 1
    /\ result.beaten_players + result.remaining_players = count_seen(Sim)

\* ------------------------------------------------------ main.rs: run_round
\* Messages read in one round, and the largest coordinate a message carries.
MaxReads == 4

MaxCoord == 1

RoundPositions == (0..MaxCoord) \X (0..MaxCoord)

\* Lines 111-137: the server's messages. Only the fields that run_round
\* looks at are kept: the goal of a Goal and the x, y of a Pos.
ServerMessage ==
    {[type |-> t, pos |-> None] : t \in {"Game", "Motd", "Error", "Win", "Lose"}}
        \cup {[type |-> t, pos |-> p] : t \in {"Goal", "Pos"}, p \in RoundPositions}

\* Lines 167-214: reader.read() returns a message or an error (end of input,
\* a line that is no message).
ReadError == [type |-> "ReadError", pos |-> None]

\* Line 246: Strategy::step returns a direction or an error.
StepError == "StepError"

StrategyStep == Directions \cup {StepError}

\* Lines 32-39: Direction::offset of main.rs, on plain i32 coordinates.
offset(d, pos) ==
    CASE d = "Up" -> <<pos[1], pos[2] - 1>>
      [] d = "Right" -> <<pos[1] + 1, pos[2]>>
      [] d = "Down" -> <<pos[1], pos[2] + 1>>
      [] d = "Left" -> <<pos[1] - 1, pos[2]>>

\* The locals of run_round at line 738-739, with the history of the round:
\* reads, moves written, Pos and Goal messages received, the last message and
\* the locals before it was read.
RoundLocals ==
    [op |-> "run_round", goal |-> None, pos |-> None, direction |-> None,
     reads |-> 0, moves |-> 0, pos_received |-> 0, goal_received |-> FALSE,
     pos_since_move |-> FALSE, double_move |-> FALSE,
     step_failed |-> FALSE, write_failed |-> FALSE, terminal_seen |-> FALSE,
     last |-> None, before |-> None]

\* History only: what a read adds to the record of the round.
Noted(c, msg) ==
    [c EXCEPT !.reads = @ + 1,
              !.last = msg,
              !.before = [pc |-> pc, goal |-> c.goal, pos |-> c.pos,
                          direction |-> c.direction, moves |-> c.moves],
              !.pos_received = IF msg.type = "Pos" THEN @ + 1 ELSE @,
              !.goal_received = @ \/ msg.type = "Goal",
              !.pos_since_move = @ \/ msg.type = "Pos",
              !.terminal_seen = @ \/ msg.type \in {"Error", "Win", "Lose"}]

\* Lines 757-761: the head of the tick loop: ask the strategy, write the Move.
\* Either call may fail, and its `?` returns the error.
step_and_write(c, step, written) ==
    IF step = StepError
    THEN [pc |-> "round_err", c |-> [c EXCEPT !.step_failed = TRUE]]
    ELSE IF ~written
    THEN [pc |-> "round_err",
          c |-> [c EXCEPT !.direction = <<step>>, !.write_failed = TRUE]]
    ELSE [pc |-> "round_active",
          c |-> [c EXCEPT !.direction = <<step>>,
                          !.moves = @ + 1,
                          !.double_move = @ \/ ~c.pos_since_move,
                          !.pos_since_move = FALSE]]

\* Lines 740-753: one message of the waiting loop, then the loop test; when
\* the loop ends, lines 755-761.
waiting_message(c, msg, step, written) ==
    IF msg = ReadError THEN [pc |-> "round_err", c |-> c]
    ELSE IF msg.type \in {"Error", "Win", "Lose"} THEN [pc |-> "round_ok", c |-> c]
    ELSE IF msg.type = "Goal" /\ c.pos = None
    THEN [pc |-> "round_wait", c |-> [c EXCEPT !.goal = <<msg.pos>>]]
    ELSE IF msg.type = "Pos" /\ c.goal = None
    THEN [pc |-> "round_wait", c |-> [c EXCEPT !.pos = <<msg.pos>>]]
    ELSE IF msg.type = "Goal"
    THEN step_and_write([c EXCEPT !.goal = <<msg.pos>>], step, written)
    ELSE IF msg.type = "Pos"
    THEN step_and_write([c EXCEPT !.pos = <<msg.pos>>], step, written)
    ELSE [pc |-> "round_wait", c |-> c]

\* As active_message, with every Pos taken as the new position.
active_message_unchecked(c, msg, step, written) ==
    IF msg = ReadError THEN [pc |-> "round_err", c |-> c]
    ELSE IF msg.type \in {"Error", "Goal", "Win", "Lose"}
    THEN [pc |-> "round_ok", c |-> c]
    ELSE IF msg.type = "Pos"
    THEN step_and_write([c EXCEPT !.pos = <<msg.pos>>], step, written)
    ELSE [pc |-> "round_active", c |-> c]

\* Lines 763-783: one message of the inner loop; an expected Pos breaks out
\* of it to lines 757-761.
active_message(c, msg, step, written) ==
    IF msg = ReadError THEN [pc |-> "round_err", c |-> c]
    ELSE IF msg.type \in {"Error", "Goal", "Win", "Lose"}
    THEN [pc |-> "round_ok", c |-> c]
    ELSE IF msg.type = "Pos"
    THEN IF msg.pos # offset(c.direction[1], c.pos[1])
         THEN [pc |-> "round_err", c |-> c]
         ELSE step_and_write([c EXCEPT !.pos = <<msg.pos>>], step, written)
    ELSE [pc |-> "round_active", c |-> c]

RoundInit ==
    /\ heap = [a \in Addrs |-> new(0, 0)]
    /\ fed = 0
    /\ pc = "round_wait"
    /\ board = LIVE
    /\ own_player_id = 0
    /\ max_steps = 0
    /\ clear_on_death = FALSE
    /\ i_step = 0
    /\ count_dead_before_turn = 0
    /\ new_pos_by_player = <<>>
    /\ next_occupied_count = <<>>
    /\ result = None
    /\ pre = None
    /\ ticks = 0
    /\ call = RoundLocals
    /\ recorded = {}
    /\ notified = {}

RoundFrame == <<heap, fed, board, PlayoutLocals, ticks, recorded, notified>>

\* A read in the waiting loop, up to the next read or the return.
ReadWaiting ==
    /\ pc = "round_wait"
    /\ call.reads < MaxReads
    /\ \E msg \in ServerMessage \cup {ReadError}, step \in StrategyStep,
          written \in BOOLEAN :
           \E r \in {waiting_message(Noted(call, msg), msg, step, written)} :
               /\ call' = r.c
               /\ pc' = r.pc
    /\ UNCHANGED RoundFrame

\* A read in the inner loop, up to the next read or the return.
ReadActive ==
    /\ pc = "round_active"
    /\ call.reads < MaxReads
    /\ \E msg \in ServerMessage \cup {ReadError}, step \in StrategyStep,
          written \in BOOLEAN :
           \E r \in {active_message(Noted(call, msg), msg, step, written)} :
               /\ call' = r.c
               /\ pc' = r.pc
    /\ UNCHANGED RoundFrame

RoundNext == ReadWaiting \/ ReadActive

RoundSpec == RoundInit /\ [][RoundNext]_vars

\* ------------------------------------------------ properties: run_round
\* The last message read is a Pos of the inner loop, and it is the position
\* before it moved one step in the direction sent.
ExpectedPos ==
    /\ call.before.pc = "round_active"
    /\ call.last.type = "Pos"
    /\ call.last.pos[1] = call.before.pos[1][1] + DX(call.before.direction[1])
    /\ call.last.pos[2] = call.before.pos[1][2] + DY(call.before.direction[1])

UnexpectedPos ==
    /\ call.before.pc = "round_active"
    /\ call.last.type = "Pos"
    /\ ~ExpectedPos

\* The last message read ended the waiting loop.
RoundStarted ==
    /\ call.before.pc = "round_wait"
    /\ call.last.type \in {"Goal", "Pos"}
    /\ call.goal_received
    /\ call.pos_received > 0

\* The parts of the statement that do not count Moves against Pos messages:
\* a Move needs a Goal and a Pos before it, no two Moves without a Pos in
\* between, an unexpected Pos ends the round with an error and no Move, and
\* a Win, Lose or Error ends the round with no Move.
RoundOrder ==
    /\ call.moves > 0 => (call.goal_received /\ call.pos_received > 0)
    /\ ~call.double_move
    /\ UnexpectedPos => (pc = "round_err" /\ call.moves = call.before.moves)
    /\ call.terminal_seen =>
          /\ pc = "round_ok"
          /\ call.last.type \in {"Error", "Win", "Lose"}
          /\ call.moves = call.before.moves

\* C32 as stated: a Move only after a Goal and a Pos, exactly one Move per
\* received Pos (never two Moves without a Pos in between), an unexpected Pos
\* ends the round with an error, and no Move after a Win, Lose or Error.
C32_OneMovePerReceivedPos ==
    call.reads > 0 =>
        /\ RoundOrder
        /\ pc = "round_active" => call.moves = call.pos_received

\* C32, amended: a Move only after a Goal and a Pos; at most one Move per
\* received Pos (never two Moves without a Pos in between); the read that
\* ends the waiting loop and every expected Pos after it are answered by
\* exactly one Move, unless the strategy's step or the write fails, which
\* ends the round with an error and no Move; an unexpected Pos ends the round
\* with an error; and no Move after a Win, Lose or Error.
C32_RoundProtocol ==
    call.reads > 0 =>
        /\ RoundOrder
        /\ call.moves <= call.pos_received
        /\ (RoundStarted \/ ExpectedPos) =>
              \/ /\ pc = "round_active"
                 /\ call.moves = call.before.moves + 1
              \/ /\ pc = "round_err"
                 /\ call.moves = call.before.moves
                 /\ call.step_failed \/ call.write_failed

\* Two Pos messages before the Goal, then an expected Pos: three Pos
\* messages received, two Moves written.
C32_Witness ==
    /\ pc = "round_active"
    /\ ExpectedPos
    /\ call.pos_received = 3
    /\ call.moves = 2

====
